---- MODULE Spec2Model ----
(***************************************************************************)
(* kmonad_dump: a KMonad configuration is compiled to keyboard-layout-     *)
(* editor raw data.  The model follows KMonadConfig.__init__ step by step: *)
(* layer sections are parsed, the hardware layout is built (keycap grid,   *)
(* colors, options, label imports into the process-wide alias table), then *)
(* build() renders the output.                                             *)
(*                                                                         *)
(* Text is a sequence of items: a token (a maximal run of non-blank        *)
(* characters) or one of the blank characters SP and NL.  Glyphs outside   *)
(* ASCII (and the backquote) are written by code point ("U+2912").         *)
(***************************************************************************)
EXTENDS Integers, Sequences, FiniteSets, TLC

VARIABLES text, kmonad_aliases, pc, layers, first, hardware, layout, err,
          observed, runs

vars == <<text, kmonad_aliases, pc, layers, first, hardware, layout, err,
          observed, runs>>

\* Python's None.
None == "<None>"

SP == " "
NL == "\n"

IsSpace(x) == x \in {SP, NL}

(***************************************************************************)
(* Bounds of the model.                                                    *)
(***************************************************************************)
\* number of KMonadConfig constructions in one process
MaxRuns == 2
\* number of (label ...) declarations in one hardware section
MaxLabels == 2

(***************************************************************************)
(* Translation table for common KMonad aliases (initial value).            *)
(***************************************************************************)
BuiltinAliases ==
    "ret" :> "Return" @@ "return" :> "Return" @@ "ent" :> "Enter" @@ "min" :> "-" @@
    "eql" :> "=" @@ "spc" :> "Space" @@ "pgup" :> "U+2912" @@ "pgdn" :> "U+2913" @@
    "ins" :> "Ins" @@ "del" :> "Del" @@ "volu" :> "U+1F56A" @@ "voldwn" :> "U+1F569" @@
    "vold" :> "U+1F569" @@ "mute" :> "U+1F568" @@ "brup" :> "U+1F506" @@ "bru" :> "U+1F506" @@
    "brdown" :> "U+1F505" @@ "brdwn" :> "U+1F505" @@ "brdn" :> "U+1F505" @@ "lalt" :> "Alt" @@
    "alt" :> "Alt" @@ "ralt" :> "AltGr" @@ "comp" :> "Cmp" @@ "cmps" :> "Cmp" @@
    "cmp" :> "Cmp" @@ "lshift" :> "Shift" @@ "lshft" :> "Shift" @@ "lsft" :> "Shift" @@
    "shft" :> "Shift" @@ "sft" :> "Shift" @@ "rshift" :> "Shift" @@ "rshft" :> "Shift" @@
    "rsft" :> "Shift" @@ "lctrl" :> "Ctrl" @@ "lctl" :> "Ctrl" @@ "ctl" :> "Ctrl" @@
    "rctrl" :> "Ctrl" @@ "rctl" :> "Ctrl" @@ "lmeta" :> "Meta" @@ "lmet" :> "Meta" @@
    "met" :> "Meta" @@ "rmeta" :> "Meta" @@ "rmet" :> "Meta" @@ "bks" :> "U+232B" @@
    "bspc" :> "U+232B" @@ "caps" :> "U+1F130 Caps" @@ "fwd" :> "U+23ED" @@ "lft" :> "U+2190" @@
    "rght" :> "U+2192" @@ "lbrc" :> "[" @@ "rbrc" :> "]" @@ "scln" :> ";" @@
    "apos" :> "'" @@ "grv" :> "U+0060" @@ "bksl" :> "\\\\" @@ "comm" :> "," @@
    "kp/" :> "/" @@ "kprt" :> "Enter" @@ "kp+" :> "+" @@ "kp*" :> "*" @@
    "kp-" :> "-" @@ "kp." :> "." @@ "ssrq" :> "SysRq" @@ "sys" :> "SysRq" @@
    "next" :> " U+23ED" @@ "pp" :> "U+23EF" @@ "prev" :> "U+23EE" @@ "up" :> "U+2191" @@
    "down" :> "U+2193" @@ "dn" :> "U+2193" @@ "f1" :> "F1" @@ "f2" :> "F2" @@
    "f3" :> "F3" @@ "f4" :> "F4" @@ "f5" :> "F5" @@ "f6" :> "F6" @@
    "f7" :> "F7" @@ "f8" :> "F8" @@ "f9" :> "F9" @@ "f10" :> "F10" @@
    "f11" :> "F11" @@ "f12" :> "F12"

(***************************************************************************)
(* Matrix position to label position mapping.                              *)
(***************************************************************************)
label_pos ==
    <<0,0>> :> 0 @@ <<0,1>> :> 8  @@ <<0,2>> :> 2 @@
    <<1,0>> :> 6 @@ <<1,1>> :> 9  @@ <<1,2>> :> 7 @@
    <<2,0>> :> 1 @@ <<2,1>> :> 10 @@ <<2,2>> :> 3 @@
    <<3,0>> :> 4 @@ <<3,1>> :> 11 @@ <<3,2>> :> 5

(***************************************************************************)
(* Python string and list primitives on item sequences.                    *)
(***************************************************************************)
\* index of the first NL of s at or after i, 0 when there is none
RECURSIVE FirstNL(_, _)
FirstNL(s, i) ==
    IF i > Len(s) THEN 0
    ELSE IF s[i] = NL THEN i
    ELSE FirstNL(s, i + 1)

\* str.splitlines(): no empty last line after a final line break
RECURSIVE splitlines(_)
splitlines(s) ==
    IF s = <<>> THEN <<>>
    ELSE LET i == FirstNL(s, 1)
         IN  IF i = 0 THEN <<s>>
             ELSE <<SubSeq(s, 1, i - 1)>> \o splitlines(SubSeq(s, i + 1, Len(s)))

IsToken(x) == ~IsSpace(x)

\* str.split(): the blank-separated tokens of one line
split(line) == SelectSeq(line, IsToken)

\* [line.split() for line in data.splitlines()]
SplitRows(data) ==
    LET ls == splitlines(data)
    IN  [i \in 1..Len(ls) |-> split(ls[i])]

\* number of blank items s starts with, counted from k
RECURSIVE LeadingSpace(_, _)
LeadingSpace(s, k) ==
    IF k < Len(s) /\ IsSpace(s[k + 1]) THEN LeadingSpace(s, k + 1) ELSE k

\* The group "data" of  keyword \s+ (?P<data>.+?) [)]  on the text that
\* stands between the keyword and the closing parenthesis: \s+ takes the
\* leading blanks, and gives one back when nothing else is left for .+?
NoMatch == [found |-> FALSE, data |-> <<>>]

RegexData(body) ==
    LET k    == LeadingSpace(body, 0)
        rest == SubSeq(body, k + 1, Len(body))
    IN  IF k = 0 THEN NoMatch
        ELSE IF rest # <<>> THEN [found |-> TRUE, data |-> rest]
        ELSE IF k >= 2 THEN [found |-> TRUE, data |-> <<body[k]>>]
        ELSE NoMatch

\* dict.get(k, default)
Get(d, k, default) == IF k \in DOMAIN d THEN d[k] ELSE default

\* d[k] = v
Put(d, k, v) == (k :> v) @@ d

EmptyDict == [k \in {} |-> None]

Range(s) == {s[i] : i \in DOMAIN s}

(***************************************************************************)
(* The input file.  A grid declaration is written as its rows of tokens    *)
(* and the blanks around them: after the keyword (head), before each row   *)
(* (indent), after each row (trail), before the closing parenthesis (tail).*)
(***************************************************************************)
RECURSIVE JoinTokens(_)
JoinTokens(row) ==
    IF row = <<>> THEN <<>>
    ELSE IF Len(row) = 1 THEN row
    ELSE <<Head(row), SP>> \o JoinTokens(Tail(row))

RECURSIVE JoinLines(_, _)
JoinLines(rows, ws) ==
    IF rows = <<>> THEN <<>>
    ELSE LET line == ws.indent \o JoinTokens(Head(rows)) \o ws.trail
         IN  IF Len(rows) = 1 THEN line
             ELSE line \o <<NL>> \o JoinLines(Tail(rows), ws)

\* the characters between the keyword (or layer name) and the closing parenthesis
GridBody(decl) == decl.ws.head \o JoinLines(decl.rows, decl.ws) \o decl.ws.tail

\* (keycap a b c NL d e f ...)
Compact  == [head |-> <<SP>>, indent |-> <<>>, trail |-> <<>>, tail |-> <<>>]
\* blanks at both ends of every line and before the parenthesis
Padded   == [head |-> <<SP, SP>>, indent |-> <<SP>>, trail |-> <<SP>>, tail |-> <<SP>>]
\* one row per line, the parenthesis on its own line in column 0
OwnLine  == [head |-> <<NL, SP, SP>>, indent |-> <<SP, SP>>, trail |-> <<>>, tail |-> <<NL>>]
\* one row per line, the parenthesis on its own indented line
Indented == [head |-> <<NL, SP, SP>>, indent |-> <<SP, SP>>, trail |-> <<>>, tail |-> <<NL, SP, SP>>]

Styles == {Compact, Padded, OwnLine, Indented}

NoDecl == [present |-> FALSE, rows |-> <<>>, ws |-> Compact]

Decl(rows, ws) == [present |-> TRUE, rows |-> rows, ws |-> ws]

(***************************************************************************)
(* Errors: the exception class and its message.                            *)
(***************************************************************************)
NoError == [type |-> None, msg |-> None]

RuntimeError(msg) == [type |-> "RuntimeError", msg |-> msg]

KeyError(key) == [type |-> "KeyError", msg |-> key]

KeycapNotFound == RuntimeError("Keycap definition not found. ie (keycap ...)")

InvalidKeycap ==
    RuntimeError("Invalid keycap definition. Mandatory format for (keycap ...): 4 rows of 3 columns, empty places marked with '_'")

InvalidColors ==
    RuntimeError("Invalid keycap colors definition. Mandatory format for (colors ...): 4 rows of 3 columns if html hex color codes. ie. colors(#000000 ...)")

HardwareNotFound ==
    RuntimeError("Hardware layout section ot found. ie. <hardware-layout>...</hardware-layout>")

(***************************************************************************)
(* Custom options per keycap.                                              *)
(***************************************************************************)
\* Options.__init__: later declarations of a name replace earlier ones
RECURSIVE Options_init(_, _)
Options_init(decls, index) ==
    IF decls = <<>> THEN index
    ELSE Options_init(Tail(decls), Put(index, Head(decls).name, Head(decls).data))

\* Options.__call__
Options_call(index, name) == Get(index, name, None)

(***************************************************************************)
(* Global keycap layout.                                                   *)
(***************************************************************************)
\* KeyCap.Pattern.search(data)
KeyCapPattern(data) ==
    IF data.keycap.present THEN RegexData(GridBody(data.keycap)) ELSE NoMatch

\* tokens made of the characters [#a-fA-F0-9] only
HexTokens == {"#000000", "#ff0000", "#00FF00", "#1e90ff"}

IsColorsChar(x) == IsSpace(x) \/ x \in HexTokens

\* KeyCap.Colors.search(data): the body may hold [#a-fA-F0-9\s] only
KeyCapColors(data) ==
    IF ~data.colors.present THEN NoMatch
    ELSE LET m == RegexData(GridBody(data.colors))
         IN  IF m.found /\ \A i \in DOMAIN m.data : IsColorsChar(m.data[i])
             THEN m ELSE NoMatch

\* the shape check with <= for == on the columns
BadShape_AtMost3(rows) == Len(rows) # 4 \/ ~(\A i \in DOMAIN rows : Len(rows[i]) <= 3)

\* len(rows) != 4 or not all(len(r) == 3 for r in rows)
BadShape(rows) == Len(rows) # 4 \/ ~(\A i \in DOMAIN rows : Len(rows[i]) = 3)

Black == [r \in 1..4 |-> [c \in 1..3 |-> "#000000"]]

ColorsWarning == "[Warning] Invalid colors definition (colors ...). Fallback to all black."

\* the loop over the cells that keeps the first cell of a token
RECURSIVE KeyCapMaps_FirstWins(_, _, _, _, _)
KeyCapMaps_FirstWins(rows, colors, r, c, maps) ==
    IF r >= Len(rows) THEN maps
    ELSE IF c >= Len(rows[r + 1]) THEN KeyCapMaps_FirstWins(rows, colors, r + 1, 0, maps)
    ELSE LET col == rows[r + 1][c + 1]
         IN  KeyCapMaps_FirstWins(rows, colors, r, c + 1,
                 IF col # "_" /\ col \notin DOMAIN maps.layermap
                 THEN [layermap |-> Put(maps.layermap, col, label_pos[<<r, c>>]),
                       colormap |-> Put(maps.colormap, col, colors[r + 1][c + 1])]
                 ELSE maps)

\* the loop over the cells of the grid, row by row: cell (r, c), 0-based
RECURSIVE KeyCapMaps(_, _, _, _, _)
KeyCapMaps(rows, colors, r, c, maps) ==
    IF r >= Len(rows) THEN maps
    ELSE IF c >= Len(rows[r + 1]) THEN KeyCapMaps(rows, colors, r + 1, 0, maps)
    ELSE LET col == rows[r + 1][c + 1]
         IN  KeyCapMaps(rows, colors, r, c + 1,
                 IF col # "_"
                 THEN [layermap |-> Put(maps.layermap, col, label_pos[<<r, c>>]),
                       colormap |-> Put(maps.colormap, col, colors[r + 1][c + 1])]
                 ELSE maps)

NoKeyCap == [err |-> NoError, rows |-> <<>>, colors |-> <<>>,
             layermap |-> EmptyDict, colormap |-> EmptyDict, warnings |-> <<>>]

\* KeyCap.__init__
KeyCap_init(data) ==
    LET m    == KeyCapPattern(data)
        rows == SplitRows(m.data)
        mc   == KeyCapColors(data)
        decl == SplitRows(mc.data)
        colors == IF mc.found THEN decl ELSE Black
        maps == KeyCapMaps(rows, colors, 0, 0,
                           [layermap |-> EmptyDict, colormap |-> EmptyDict])
    IN  IF ~m.found THEN [NoKeyCap EXCEPT !.err = KeycapNotFound]
        ELSE IF BadShape(rows) THEN [NoKeyCap EXCEPT !.err = InvalidKeycap]
        ELSE IF mc.found /\ BadShape(decl) THEN [NoKeyCap EXCEPT !.err = InvalidColors]
        ELSE [err |-> NoError, rows |-> rows, colors |-> colors,
              layermap |-> maps.layermap, colormap |-> maps.colormap,
              warnings |-> IF mc.found THEN <<>> ELSE <<ColorsWarning>>]

LowerCase == <<"a","b","c","d","e","f","g","h","i","j","k","l","m",
               "n","o","p","q","r","s","t","u","v","w","x","y","z">>

UpperCase == <<"A","B","C","D","E","F","G","H","I","J","K","L","M",
               "N","O","P","Q","R","S","T","U","V","W","X","Y","Z">>

\* len(key) == 1 and key.isalpha()
IsAlpha1(key) == key \in Range(LowerCase) \cup Range(UpperCase)

\* key.upper(), for a key of one letter
upper(key) ==
    IF key \in Range(LowerCase)
    THEN UpperCase[CHOOSE i \in DOMAIN LowerCase : LowerCase[i] = key]
    ELSE key

\* translate as a first-match chain: an alias value is returned as it is
translate_FirstMatch(aliases, key) ==
    IF key \in DOMAIN aliases THEN aliases[key]
    ELSE IF IsAlpha1(key) THEN upper(key)
    ELSE IF key = "XX" THEN ""
    ELSE key

\* KeyCap.translate, reading the alias table as it is at the call
translate(aliases, key) ==
    LET k == Get(aliases, key, key)
    IN  IF IsAlpha1(k) THEN upper(k)
        ELSE IF k = "XX" THEN ""
        ELSE k

\* key.replace('\\', ''), for the texts of this model that hold a backslash
Unescaped == ("\\(" :> "(") @@ ("\\)" :> ")") @@ ("\\_" :> "_")

StripBackslash(key) == Get(Unescaped, key, key)

EmptyLabel == [p \in 0..11 |-> ""]

\* the loop of KeyCap.label with the slot looked up by the token
RECURSIVE LabelLoop_ByToken(_, _, _, _)
LabelLoop_ByToken(layermap, aliases, keys, lab) ==
    IF keys = <<>> THEN lab
    ELSE LET key == Head(keys).key
             t   == translate(aliases, key)
         IN  LabelLoop_ByToken(layermap, aliases, Tail(keys),
                 IF key # None /\ key # "" /\ key \in DOMAIN layermap
                 THEN [lab EXCEPT ![layermap[key]] =
                          IF t = "\\\\" \/ t = "\\\"" THEN t ELSE StripBackslash(t)]
                 ELSE lab)

\* the loop of KeyCap.label over keys.items(), in the order of the dict
RECURSIVE LabelLoop(_, _, _, _)
LabelLoop(layermap, aliases, keys, lab) ==
    IF keys = <<>> THEN lab
    ELSE LET layer == Head(keys).layer
             key   == Head(keys).key
             t     == translate(aliases, key)
         IN  LabelLoop(layermap, aliases, Tail(keys),
                 IF key # None /\ key # "" /\ layer \in DOMAIN layermap
                 THEN [lab EXCEPT ![layermap[layer]] =
                          IF t = "\\\\" \/ t = "\\\"" THEN t ELSE StripBackslash(t)]
                 ELSE lab)

\* "\\n".join(lab) without the separators at its end: the lines up to the
\* last one that is not empty
RECURSIVE TrimLines(_, _)
TrimLines(lab, n) ==
    IF n = 0 THEN <<>>
    ELSE IF lab[n - 1] = "" THEN TrimLines(lab, n - 1)
    ELSE [i \in 1..n |-> lab[i - 1]]

\* KeyCap.label
label(keycap, aliases, keys) ==
    TrimLines(LabelLoop(keycap.layermap, aliases, keys, EmptyLabel), 12)

\* KeyCap.get_colors
get_colors(keycap) ==
    TrimLines([p \in 0..11 |->
                  IF \E layer \in DOMAIN keycap.layermap : keycap.layermap[layer] = p
                  THEN Get(keycap.colormap,
                           CHOOSE layer \in DOMAIN keycap.layermap :
                               keycap.layermap[layer] = p, "")
                  ELSE ""], 12)

(***************************************************************************)
(* Hardware layout parser.                                                 *)
(***************************************************************************)
\* import_labels that keeps the value a name has already
RECURSIVE import_labels_KeepFirst(_, _)
import_labels_KeepFirst(aliases, decls) ==
    IF decls = <<>> THEN aliases
    ELSE import_labels_KeepFirst(
             IF Head(decls).name \in DOMAIN aliases THEN aliases
             ELSE Put(aliases, Head(decls).name, Head(decls).data),
             Tail(decls))

\* HardwareLayout.import_labels: every (label name data), in text order
RECURSIVE import_labels(_, _)
import_labels(aliases, decls) ==
    IF decls = <<>> THEN aliases
    ELSE import_labels(Put(aliases, Head(decls).name, Head(decls).data), Tail(decls))

\* HardwareLayout.get_description
get_description(data) ==
    [i \in DOMAIN data.description |->
        IF data.description[i] = NL THEN "<br />" ELSE data.description[i]]

NoHardware == [keycap |-> NoKeyCap, options |-> EmptyDict, description |-> <<>>]

\* HardwareLayout.__init__ that leaves the labels to a later call
HardwareLayout_init_NoImport(data, aliases) ==
    LET keycap == KeyCap_init(data)
    IN  IF ~data.present
        THEN [err |-> HardwareNotFound, hw |-> NoHardware, aliases |-> aliases]
        ELSE IF keycap.err # NoError
        THEN [err |-> keycap.err, hw |-> NoHardware, aliases |-> aliases]
        ELSE [err |-> NoError,
              hw  |-> [keycap      |-> keycap,
                       options     |-> Options_init(data.options, EmptyDict),
                       description |-> get_description(data)],
              aliases |-> aliases]

\* HardwareLayout.__init__: the layout built, the alias table it leaves, or
\* the exception that ends it
HardwareLayout_init(data, aliases) ==
    LET keycap == KeyCap_init(data)
    IN  IF ~data.present
        THEN [err |-> HardwareNotFound, hw |-> NoHardware, aliases |-> aliases]
        ELSE IF keycap.err # NoError
        THEN [err |-> keycap.err, hw |-> NoHardware, aliases |-> aliases]
        ELSE [err |-> NoError,
              hw  |-> [keycap      |-> keycap,
                       options     |-> Options_init(data.options, EmptyDict),
                       description |-> get_description(data)],
              aliases |-> import_labels(aliases, data.labels)]

(***************************************************************************)
(* KMonad layer parser.                                                    *)
(***************************************************************************)
\* a layer that forgets its name
KMonadLayer_init_NoName(name, data) ==
    [name |-> "defsrc", rows |-> SplitRows(data)]

\* KMonadLayer.__init__
KMonadLayer_init(name, data) ==
    [name |-> IF name # None THEN name ELSE "defsrc", rows |-> SplitRows(data)]

IndexError == "<IndexError>"

\* self.rows[row][col], row and col not negative
Subscript(rows, row, col) ==
    IF row < Len(rows) /\ col < Len(rows[row + 1])
    THEN rows[row + 1][col + 1]
    ELSE IndexError

\* KMonadLayer.__call__ without its try/except
KMonadLayer_call_NoExcept(layer, row, col) ==
    LET v == Subscript(layer.rows, row, col)
    IN  IF v = "_" THEN None ELSE v

\* KMonadLayer.__call__
KMonadLayer_call(layer, row, col) ==
    LET v == Subscript(layer.rows, row, col)
    IN  IF v = IndexError THEN None
        ELSE IF v = "_" THEN None
        ELSE v

(***************************************************************************)
(* KMonad file compiler.                                                   *)
(***************************************************************************)
\* position of the layer called name in the dict, 0 when it has none
RECURSIVE Find(_, _, _)
Find(dict, name, i) ==
    IF i > Len(dict) THEN 0
    ELSE IF dict[i].name = name THEN i
    ELSE Find(dict, name, i + 1)

\* self.layers[layer.name] = layer: a dict keeps the order of first insertion
SetLayer(dict, layer) ==
    LET i == Find(dict, layer.name, 1)
    IN  IF i = 0 THEN Append(dict, layer) ELSE [dict EXCEPT ![i] = layer]

\* the loop of KMonadConfig.__init__ over LayoutSection.finditer(text)
RECURSIVE ParseSections(_, _)
ParseSections(secs, st) ==
    IF secs = <<>> THEN st
    ELSE LET sec == Head(secs)
             m   == RegexData(GridBody(sec.decl))
         IN  ParseSections(Tail(secs),
                 IF ~m.found THEN st
                 ELSE [layers |-> SetLayer(st.layers, KMonadLayer_init(sec.layer, m.data)),
                       first  |-> IF st.first = None /\ sec.layer # None
                                  THEN sec.layer ELSE st.first])

\* labels = {layer.name: layer(row, col) for layer in self.layers.values()}
Labels(dict, row, col) ==
    [i \in 1..Len(dict) |->
        [layer |-> dict[i].name, key |-> KMonadLayer_call(dict[i], row, col)]]

\* KMonadConfig.keycap
KMonadConfig_keycap(dict, hw, aliases, row, col) ==
    label(hw.keycap, aliases, Labels(dict, row, col))

\* a row with the options of a key after the key
RECURSIVE BuildRow_OptionsAfter(_, _, _, _, _, _)
BuildRow_OptionsAfter(dict, hw, aliases, row, r, c) ==
    IF c >= Len(row) THEN <<>>
    ELSE LET opt == Options_call(hw.options, row[c + 1])
             key == [kind |-> "label",
                     lines |-> KMonadConfig_keycap(dict, hw, aliases, r, c)]
         IN  <<key>>
             \o (IF opt # None THEN <<[kind |-> "options", data |-> opt]>> ELSE <<>>)
             \o BuildRow_OptionsAfter(dict, hw, aliases, row, r, c + 1)

\* one row of nrows, then rendered: the options of a key, when it has some,
\* and the key
RECURSIVE BuildRow(_, _, _, _, _, _)
BuildRow(dict, hw, aliases, row, r, c) ==
    IF c >= Len(row) THEN <<>>
    ELSE LET opt == Options_call(hw.options, row[c + 1])
             key == [kind |-> "label",
                     lines |-> KMonadConfig_keycap(dict, hw, aliases, r, c)]
         IN  (IF opt # None THEN <<[kind |-> "options", data |-> opt]>> ELSE <<>>)
             \o <<key>> \o BuildRow(dict, hw, aliases, row, r, c + 1)

Header(hw) == [kind |-> "header", t |-> get_colors(hw.keycap)]

Footer(hw, name) == [kind |-> "footer", name |-> name, description |-> hw.description]

\* KMonadConfig.build, for a config that has the layer defsrc
build(dict, hw, aliases, name) ==
    LET base == dict[Find(dict, "defsrc", 1)].rows
    IN  <<Header(hw)>>
        \o [r \in 1..Len(base) |->
               [kind |-> "row", keys |-> BuildRow(dict, hw, aliases, base[r], r - 1, 0)]]
        \o <<Footer(hw, name)>>

\* the calls of KeyCap.label that build makes: position and argument
RECURSIVE LabelCalls(_, _, _, _)
LabelCalls(dict, base, r, c) ==
    IF r >= Len(base) THEN <<>>
    ELSE IF c >= Len(base[r + 1]) THEN LabelCalls(dict, base, r + 1, 0)
    ELSE <<[row |-> r, col |-> c, labels |-> Labels(dict, r, c)]>>
         \o LabelCalls(dict, base, r, c + 1)

\* what the translate calls of one call of KeyCap.label return, layer by
\* layer; None where translate is not called
Translated(aliases, labels) ==
    [i \in DOMAIN labels |->
        IF labels[i].key # None /\ labels[i].key # ""
        THEN translate(aliases, labels[i].key)
        ELSE None]

\* the call cannot be made: a layer raised
Raises(call) == \E i \in DOMAIN call.labels : call.labels[i].key = IndexError

(***************************************************************************)
(* Input files of the model.                                               *)
(***************************************************************************)
Section(layer, rows, ws) == [layer |-> layer, decl |-> Decl(rows, ws)]

Base3 == << <<"a", "b", "x1">>, <<"_", "XX", "bksl">> >>
Base2 == << <<"a", "f1">> >>
Nav1  == << <<"f1", "_", "b">> >>
Nav3  == << <<"_", "x1">>, <<"\\(", "a">>, <<"b">> >>
Sym2  == << <<"XX", "a", "f1", "b">>, <<"x1", "_", "_">> >>

\* the layer sections of a file, every section written in the style ws
LayerConfigs(ws) ==
    { <<>>,
      << Section("nav", Nav1, ws) >>,
      << Section("nav", Nav3, ws), Section("sym", Sym2, ws) >>,
      << Section(None, Base3, ws) >>,
      << Section(None, Base2, ws), Section("nav", Nav3, ws) >>,
      << Section(None, Base3, ws), Section("nav", Nav1, ws) >>,
      << Section("nav", Nav3, ws), Section(None, Base3, ws), Section("sym", Sym2, ws) >>,
      << Section(None, Base3, ws), Section("nav", Nav1, ws), Section("nav", Nav3, ws) >>,
      << Section(None, Base3, ws), Section("nav", Nav1, ws), Section("sym", Nav3, ws) >>,
      << Section(None, Base2, ws), Section("a", Nav1, ws), Section("b", Sym2, ws) >> }

TwoLayers == << Section(None, Base3, Compact), Section("nav", Nav1, Compact) >>

ThreeLayers == << Section("nav", Nav3, OwnLine), Section(None, Base3, OwnLine),
                  Section("sym", Sym2, Compact) >>

EmptyRow == <<"_", "_", "_">>

\* the layer names where the keycap wants them
Grid0 == << <<"defsrc", "nav", "_">>, EmptyRow, <<"_", "a", "_">>, <<"_", "_", "sym">> >>
\* key names instead of layer names
GridAB == << <<"a", "b", "_">>, EmptyRow, EmptyRow, EmptyRow >>
Grid3Rows == << <<"defsrc", "nav", "_">>, EmptyRow, EmptyRow >>
Grid5Rows == << <<"defsrc", "nav", "_">>, EmptyRow, EmptyRow, EmptyRow, EmptyRow >>
Grid2Cols == << <<"defsrc", "nav", "_">>, EmptyRow, <<"_", "a">>, EmptyRow >>
Grid4Cols == << <<"defsrc", "nav", "_", "_">>, EmptyRow, EmptyRow, EmptyRow >>

\* "defsrc" in cell i, "nav" in cell j, "defsrc" once more in cell k
Grid3(i, j, k) ==
    [r \in 1..4 |-> [c \in 1..3 |->
        LET n == 3 * (r - 1) + (c - 1)
        IN  IF n = k THEN "defsrc"
            ELSE IF n = j THEN "nav"
            ELSE IF n = i THEN "defsrc"
            ELSE "_"]]

\* twelve different tokens
GridFull ==
    << <<"defsrc", "nav", "sym">>, <<"a", "b", "c">>,
       <<"d", "e", "f">>, <<"g", "h", "i">> >>

KeycapGrids ==
    {Grid3(i, j, k) : i \in 0..11, j \in 0..11, k \in 0..11}
        \cup {Grid0, GridAB, GridFull}

BadGrids == {Grid3Rows, Grid5Rows, Grid2Cols, Grid4Cols}

Colors0 == << <<"#ff0000", "#00FF00", "#000000">>,
              <<"#000000", "#000000", "#000000">>,
              <<"#000000", "#1e90ff", "#000000">>,
              <<"#000000", "#000000", "#ff0000">> >>
Colors3Rows == SubSeq(Colors0, 1, 3)
Colors2Cols == [Colors0 EXCEPT ![2] = <<"#000000", "#000000">>]
ColorsNamed == [Colors0 EXCEPT ![1] = <<"red", "#00FF00", "#000000">>]

ColorsDecls ==
    {NoDecl} \cup {Decl(Colors0, ws) : ws \in Styles}
             \cup {Decl(g, Compact) : g \in {Colors3Rows, Colors2Cols, ColorsNamed}}

Option(name, data) == [name |-> name, data |-> data]

OptionsDecls ==
    { <<>>,
      << Option("a", "{w:2}") >>,
      << Option("a", "{w:2}"), Option("XX", "{c:\"#cccccc\"}"), Option("a", "{h:2}") >>,
      << Option("_", "{x:1}"), Option("f1", "{r:15}") >> }

LabelNames == {"x1", "f1"}
LabelTexts == {"q", "XX"}

Label(name, data) == [name |-> name, data |-> data]

RECURSIVE SeqsUpTo(_, _)
SeqsUpTo(S, n) ==
    IF n = 0 THEN {<<>>}
    ELSE LET shorter == SeqsUpTo(S, n - 1)
         IN  shorter \cup {Append(q, x) : q \in shorter, x \in S}

LabelDecls ==
    SeqsUpTo({Label(n, d) : n \in LabelNames, d \in LabelTexts}, MaxLabels)

Descriptions == {<<>>, <<"my", NL, "keyboard">>}

NoSection == [present |-> FALSE, keycap |-> NoDecl, colors |-> NoDecl,
              options |-> <<>>, labels |-> <<>>, description |-> <<>>]

Hw(keycap, colors, options, labels, description) ==
    [present |-> TRUE, keycap |-> keycap, colors |-> colors,
     options |-> options, labels |-> labels, description |-> description]

File(secs, hw) == [name |-> "/home/user/config.kbd", layers |-> secs, hardware |-> hw]

\* every shape of keycap grid
KeycapFiles ==
    {File(TwoLayers, Hw(Decl(g, Compact), NoDecl, <<>>, <<>>, <<>>)) :
        g \in KeycapGrids \cup BadGrids}

\* every way of writing the keycap and colors declarations
ShapeFiles ==
    {File(TwoLayers, Hw(Decl(g, ws), c, <<>>, <<>>, <<>>)) :
        g \in {Grid0} \cup BadGrids, ws \in Styles, c \in ColorsDecls}
    \cup {File(TwoLayers, Hw(NoDecl, c, <<>>, <<>>, <<>>)) : c \in ColorsDecls}

\* every layer configuration, with and without a usable hardware section
LayerFiles ==
    {File(secs, hw) :
        secs \in UNION {LayerConfigs(ws) : ws \in Styles},
        hw \in {NoSection, Hw(NoDecl, NoDecl, <<>>, <<>>, <<>>),
                Hw(Decl(Grid3Rows, Compact), NoDecl, <<>>, <<>>, <<>>)}
               \cup {Hw(Decl(g, Compact), NoDecl, o, <<>>, d) :
                        g \in {Grid0, GridAB}, o \in OptionsDecls, d \in Descriptions}}

\* every sequence of label declarations
LabelFiles ==
    {File(ThreeLayers, Hw(Decl(Grid0, Compact), NoDecl, <<>>, l, <<>>)) :
        l \in LabelDecls}
    \cup {File(<<>>, Hw(k, NoDecl, <<>>, l, <<>>)) :
             k \in {NoDecl, Decl(Grid0, Compact)}, l \in LabelDecls}

\* the files a process compiles after its first one
RerunFiles ==
    {File(ThreeLayers, Hw(Decl(Grid0, Compact), NoDecl, <<>>, l, <<>>)) :
        l \in LabelDecls}
    \cup {File(TwoLayers, NoSection)}

Files == KeycapFiles \cup ShapeFiles \cup LayerFiles \cup LabelFiles

(***************************************************************************)
(* The program: KMonadConfig(file), once or several times in a process.    *)
(***************************************************************************)
Init ==
    /\ text \in Files
    /\ kmonad_aliases = BuiltinAliases
    /\ pc = "layers"
    /\ layers = <<>>
    /\ first = None
    /\ hardware = NoHardware
    /\ layout = <<>>
    /\ err = NoError
    /\ observed = <<>>
    /\ runs = 1

\* KMonadConfig.__init__: the layer sections of the text, in text order
ParseLayers ==
    /\ pc = "layers"
    /\ LET st == ParseSections(text.layers, [layers |-> <<>>, first |-> None])
       IN  /\ layers' = st.layers
           /\ first' = st.first
    /\ pc' = "hardware"
    /\ UNCHANGED <<text, kmonad_aliases, hardware, layout, err, observed, runs>>

\* KMonadConfig.__init__: self.hardware = HardwareLayout(text)
HardwareLayout ==
    /\ pc = "hardware"
    /\ LET res == HardwareLayout_init(text.hardware, kmonad_aliases)
       IN  /\ kmonad_aliases' = res.aliases
           /\ hardware' = res.hw
           /\ err' = res.err
           /\ pc' = IF res.err = NoError THEN "build" ELSE "raised"
    /\ UNCHANGED <<text, layers, first, layout, observed, runs>>

\* KMonadConfig.__init__: self.layout = self.build()
Build ==
    /\ pc = "build"
    /\ IF Find(layers, "defsrc", 1) = 0
       THEN /\ err' = KeyError("defsrc")
            /\ pc' = "raised"
            /\ UNCHANGED <<layout, observed>>
       ELSE LET calls == LabelCalls(layers, layers[Find(layers, "defsrc", 1)].rows, 0, 0)
            IN  IF \E i \in DOMAIN calls : Raises(calls[i])
                THEN /\ err' = [type |-> "IndexError", msg |-> "list index out of range"]
                     /\ pc' = "raised"
                     /\ UNCHANGED <<layout, observed>>
                ELSE /\ layout' = build(layers, hardware, kmonad_aliases, text.name)
                     /\ observed' = [i \in DOMAIN calls |->
                            [row |-> calls[i].row, col |-> calls[i].col,
                             labels |-> calls[i].labels,
                             translated |-> Translated(kmonad_aliases, calls[i].labels),
                             aliases |-> DOMAIN kmonad_aliases,
                             result |-> label(hardware.keycap, kmonad_aliases,
                                              calls[i].labels)]]
                     /\ pc' = "done"
                     /\ UNCHANGED err
    /\ UNCHANGED <<text, kmonad_aliases, layers, first, hardware, runs>>

\* the process compiles another file: the alias table is the module's
NewRun ==
    /\ pc \in {"done", "raised"}
    /\ runs < MaxRuns
    /\ text' \in RerunFiles
    /\ pc' = "layers"
    /\ layers' = <<>>
    /\ first' = None
    /\ hardware' = NoHardware
    /\ layout' = <<>>
    /\ err' = NoError
    /\ observed' = <<>>
    /\ runs' = runs + 1
    /\ UNCHANGED kmonad_aliases

Next == ParseLayers \/ HardwareLayout \/ Build \/ NewRun

Spec == Init /\ [][Next]_vars

(***************************************************************************)
(* Properties.                                                             *)
(***************************************************************************)
\* line p of a label: the lines after the last one that is not empty are
\* not written
LineAt(lines, p) == IF p + 1 <= Len(lines) THEN lines[p + 1] ELSE ""

\* the text label() writes for a translated token
Written(t) == IF t = "\\\\" \/ t = "\\\"" THEN t ELSE StripBackslash(t)

Bound(call, j) == call.labels[j].key # None /\ call.labels[j].key # ""

\* C1 as stated: the token a layer binds at a key is written, translated,
\* on the label line that the keycap grid records for that TOKEN.
C1_SlotOfToken ==
    \A i \in DOMAIN observed :
        \A j \in DOMAIN observed[i].labels :
            LET key == observed[i].labels[j].key
                lm  == hardware.keycap.layermap
            IN  (Bound(observed[i], j) /\ key \in DOMAIN lm)
                    => LineAt(observed[i].result, lm[key])
                           = Written(observed[i].translated[j])

\* C1 amended: the token a layer binds at a key is written, translated, on
\* the label line that the keycap grid records for the NAME OF THE LAYER;
\* a layer whose name is not in the keycap grid writes nothing, and every
\* line that no bound layer owns is empty.
C1_SlotOfLayer ==
    \A i \in DOMAIN observed :
        LET lm   == hardware.keycap.layermap
            call == observed[i]
        IN  /\ \A j \in DOMAIN call.labels :
                   (Bound(call, j) /\ call.labels[j].layer \in DOMAIN lm)
                       => LineAt(call.result, lm[call.labels[j].layer])
                              = Written(call.translated[j])
            /\ \A p \in 0..11 :
                   (~\E j \in DOMAIN call.labels :
                        /\ Bound(call, j)
                        /\ call.labels[j].layer \in DOMAIN lm
                        /\ lm[call.labels[j].layer] = p)
                       => LineAt(call.result, p) = ""

\* a key where a layer of the grid binds a token that is in the grid too,
\* at another place, and the layer's line is written
C1_Witness ==
    /\ pc = "done"
    /\ \E i \in DOMAIN observed : \E j \in DOMAIN observed[i].labels :
           LET key   == observed[i].labels[j].key
               layer == observed[i].labels[j].layer
               lm    == hardware.keycap.layermap
           IN  /\ Bound(observed[i], j)
               /\ layer \in DOMAIN lm
               /\ key \in DOMAIN lm
               /\ lm[key] # lm[layer]
               /\ LineAt(observed[i].result, lm[layer]) = "A"
               /\ LineAt(observed[i].result, lm[key]) = ""

\* C2 as stated: translate is a first-match chain; a token that has an
\* alias is translated to exactly the alias value.
C2_FirstMatch ==
    \A i \in DOMAIN observed : \A j \in DOMAIN observed[i].labels :
        LET key == observed[i].labels[j].key
        IN  Bound(observed[i], j) =>
                observed[i].translated[j] =
                    IF key \in DOMAIN kmonad_aliases THEN kmonad_aliases[key]
                    ELSE IF IsAlpha1(key) THEN upper(key)
                    ELSE IF key = "XX" THEN ""
                    ELSE key

\* C2 amended: the alias value of the token (the token itself when it has
\* no alias) goes through the other rules: one letter is upper-cased, XX
\* becomes the empty string, anything else is returned unchanged.  So an
\* alias value of one letter is returned in upper case and an alias value
\* XX as the empty string.
C2_AliasThenRules ==
    \A i \in DOMAIN observed : \A j \in DOMAIN observed[i].labels :
        LET key == observed[i].labels[j].key
            v   == IF key \in DOMAIN kmonad_aliases THEN kmonad_aliases[key] ELSE key
            t   == observed[i].translated[j]
        IN  Bound(observed[i], j) =>
                /\ v \in Range(LowerCase) =>
                       \E n \in DOMAIN LowerCase : LowerCase[n] = v /\ t = UpperCase[n]
                /\ v \in Range(UpperCase) => t = v
                /\ v = "XX" => t = ""
                /\ (v \notin Range(LowerCase) \cup Range(UpperCase) /\ v # "XX") => t = v

\* a declared alias of one letter was translated to its upper case, and a
\* declared alias XX to the empty string
C2_Witness ==
    /\ pc = "done"
    /\ \E i, k \in DOMAIN observed :
        \E j \in DOMAIN observed[i].labels : \E l \in DOMAIN observed[k].labels :
           /\ observed[i].labels[j].key = "x1"
           /\ "x1" \in DOMAIN kmonad_aliases
           /\ kmonad_aliases["x1"] = "q"
           /\ observed[i].translated[j] = "Q"
           /\ observed[k].labels[l].key = "f1"
           /\ kmonad_aliases["f1"] = "XX"
           /\ observed[k].translated[l] = ""

Is4x3(rows) == Len(rows) = 4 /\ \A r \in DOMAIN rows : Len(rows[r]) = 3

\* KeyCap construction was tried and is over
KeyCapBuilt == pc \in {"build", "done", "raised"} /\ text.hardware.present

\* C3 as stated: KeyCap construction ends in a missing-section error without
\* a keycap declaration, else in a malformed-shape error when the keycap
\* grid is not 4x3, else in a malformed-shape error when a colors
\* declaration is there and is not 4x3, else well, with the declared colors
\* or, without a colors declaration, all black and a warning; the error
\* kind tells the missing section from the malformed shape.
C3_Outcomes ==
    KeyCapBuilt =>
        LET kc == text.hardware.keycap
            cl == text.hardware.colors
        IN  IF ~kc.present
            THEN err = KeycapNotFound /\ err.type # InvalidKeycap.type
            ELSE IF ~Is4x3(kc.rows) THEN err = InvalidKeycap
            ELSE IF cl.present /\ ~Is4x3(cl.rows) THEN err = InvalidColors
            ELSE /\ err \notin {KeycapNotFound, InvalidKeycap, InvalidColors}
                 /\ pc # "raised" =>
                        IF cl.present
                        THEN /\ hardware.keycap.colors = cl.rows
                             /\ hardware.keycap.warnings = <<>>
                        ELSE /\ hardware.keycap.colors = Black
                             /\ hardware.keycap.warnings = <<ColorsWarning>>

\* the rows the parser reads from a declaration: the rows written, and one
\* more, empty, when blanks stand between the last line break and the
\* closing parenthesis
RowsRead(decl) ==
    LET t == decl.ws.tail
    IN  IF \E n \in DOMAIN t : t[n] = NL /\ n < Len(t)
        THEN Append(decl.rows, <<>>)
        ELSE decl.rows

\* the colors pattern finds the declaration: it holds nothing but hex
\* digits, # and blanks
ColorsFound(decl) ==
    decl.present /\ \A r \in DOMAIN decl.rows : \A c \in DOMAIN decl.rows[r] :
                        decl.rows[r][c] \in HexTokens

\* C3 amended: the three errors are of ONE kind (RuntimeError) and differ by
\* their message only.  The outcome is: the keycap-not-found message without
\* a keycap declaration; else the invalid-keycap message when the rows read
\* are not 4x3; else the invalid-colors message when a colors declaration of
\* hex codes is found and the rows read from it are not 4x3; else success,
\* with the colors read, or all black and a warning when no colors
\* declaration is found (none written, or one that holds something else
\* than hex codes).
C3_OutcomesByMessage ==
    KeyCapBuilt =>
        LET kc == text.hardware.keycap
            cl == text.hardware.colors
        IN  /\ {KeycapNotFound.type, InvalidKeycap.type, InvalidColors.type}
                  = {"RuntimeError"}
            /\ Cardinality({KeycapNotFound.msg, InvalidKeycap.msg, InvalidColors.msg}) = 3
            /\ IF ~kc.present THEN err = KeycapNotFound
               ELSE IF ~Is4x3(RowsRead(kc)) THEN err = InvalidKeycap
               ELSE IF ColorsFound(cl) /\ ~Is4x3(RowsRead(cl)) THEN err = InvalidColors
               ELSE /\ err \notin {KeycapNotFound, InvalidKeycap, InvalidColors}
                    /\ pc # "raised" =>
                           IF ColorsFound(cl)
                           THEN /\ hardware.keycap.colors = cl.rows
                                /\ hardware.keycap.warnings = <<>>
                           ELSE /\ hardware.keycap.colors = Black
                                /\ hardware.keycap.warnings = <<ColorsWarning>>

\* a good keycap grid with a colors declaration one column short
C3_Witness ==
    /\ pc = "raised"
    /\ err = InvalidColors
    /\ Is4x3(text.hardware.keycap.rows)
    /\ text.hardware.colors.rows = Colors2Cols

\* no section of the file is the base layer
NoBaseLayer == \A n \in DOMAIN text.layers : text.layers[n].layer # None

Ended == pc \in {"done", "raised"}

Cells == {<<r, c>> : r \in 0..3, c \in 0..2}

Populated(rows) == {rc \in Cells : rows[rc[1] + 1][rc[2] + 1] # "_"}

KeyCapDone == pc \in {"build", "done"}

\* C9 as stated: for every 4x3 grid, a token written more than once
\* included, the populated cells and the slots are in bijection: cell (r, c)
\* occupies slot label_pos(r, c), and there are as many populated slots as
\* cells that are not `_`.
C9_Bijection ==
    KeyCapDone =>
        LET rows == hardware.keycap.rows
            lm   == hardware.keycap.layermap
        IN  /\ \A rc \in Populated(rows) :
                   lm[rows[rc[1] + 1][rc[2] + 1]] = label_pos[rc]
            /\ Cardinality({lm[t] : t \in DOMAIN lm}) = Cardinality(Populated(rows))

\* the last cell, row by row, that holds the token
LastCell(rows, t) ==
    CHOOSE rc \in Populated(rows) :
        /\ rows[rc[1] + 1][rc[2] + 1] = t
        /\ \A q \in Populated(rows) :
               rows[q[1] + 1][q[2] + 1] = t => 3 * q[1] + q[2] <= 3 * rc[1] + rc[2]

\* C9 amended: every token of the grid that is not `_` is mapped to exactly
\* one slot in 0..11, the slot label_pos of the LAST cell (row by row) that
\* holds it; different tokens have different slots; there are as many
\* populated slots as DIFFERENT tokens.  When no token is written twice this
\* is the bijection between populated cells and slots.
C9_LastCellWins ==
    KeyCapDone =>
        LET rows == hardware.keycap.rows
            lm   == hardware.keycap.layermap
            toks == {rows[rc[1] + 1][rc[2] + 1] : rc \in Populated(rows)}
        IN  /\ DOMAIN lm = toks
            /\ \A t \in toks : lm[t] \in 0..11 /\ lm[t] = label_pos[LastCell(rows, t)]
            /\ \A t, u \in toks : lm[t] = lm[u] => t = u
            /\ Cardinality({lm[t] : t \in toks}) = Cardinality(toks)
            /\ Cardinality(toks) = Cardinality(Populated(rows)) =>
                   \A rc \in Populated(rows) :
                       lm[rows[rc[1] + 1][rc[2] + 1]] = label_pos[rc]

\* a grid with a token in two cells, and another token between them
C9_Witness ==
    /\ KeyCapDone
    /\ hardware.keycap.rows = Grid3(1, 4, 9)
    /\ hardware.keycap.layermap = ("defsrc" :> 4) @@ ("nav" :> 9)

Declared == {text.hardware.labels[n].name : n \in DOMAIN text.hardware.labels}

\* C5: every translate call of a construction reads an alias table that
\* holds every name the hardware section of the file declares with `label`:
\* the labels are imported before rendering starts.
C5_LabelsBeforeTranslate ==
    \A i \in DOMAIN observed :
        (\E j \in DOMAIN observed[i].labels : Bound(observed[i], j))
            => Declared \subseteq observed[i].aliases

\* tokens were translated in a construction whose file declares a name that
\* the built-in table does not have
C5_Witness ==
    /\ pc = "done"
    /\ "x1" \in Declared
    /\ runs = 1
    /\ \E i \in DOMAIN observed : \E j \in DOMAIN observed[i].labels :
           Bound(observed[i], j) /\ observed[i].labels[j].key = "x1"

\* the text of the last declaration of a name
LastText(decls, name) ==
    decls[CHOOSE n \in DOMAIN decls :
              /\ decls[n].name = name
              /\ \A m \in DOMAIN decls : decls[m].name = name => m <= n].data

\* the step is a Hardware Layout construction that processes its labels
ImportStep == pc = "hardware" /\ pc' = "build"

\* C6: no step removes a name from the alias table, built-in names
\* included; a step that processes label declarations leaves every declared
\* name with the text of its LAST declaration and every other name as it
\* was; no other step changes the table.
C6_AliasTable ==
    [][ /\ DOMAIN kmonad_aliases \subseteq DOMAIN kmonad_aliases'
        /\ DOMAIN BuiltinAliases \subseteq DOMAIN kmonad_aliases'
        /\ IF ImportStep
           THEN \A n \in DOMAIN kmonad_aliases' :
                    IF n \in Declared
                    THEN kmonad_aliases'[n] = LastText(text.hardware.labels, n)
                    ELSE n \in DOMAIN kmonad_aliases
                             /\ kmonad_aliases'[n] = kmonad_aliases[n]
           ELSE kmonad_aliases' = kmonad_aliases ]_vars

\* a second construction in the process has declared a name twice, with
\* two texts, over a value an earlier construction gave it
C6_Witness ==
    /\ pc = "build"
    /\ runs = 2
    /\ Len(text.hardware.labels) = 2
    /\ text.hardware.labels[1] = Label("f1", "q")
    /\ text.hardware.labels[2] = Label("f1", "XX")
    /\ kmonad_aliases["f1"] = "XX"
    /\ "x1" \in DOMAIN kmonad_aliases

\* the fragment of the last options declaration of a name
LastOption(decls, name) ==
    decls[CHOOSE n \in DOMAIN decls :
              /\ decls[n].name = name
              /\ \A m \in DOMAIN decls : decls[m].name = name => m <= n].data

HasOption(name) ==
    \E n \in DOMAIN text.hardware.options : text.hardware.options[n].name = name

BaseRows == layers[Find(layers, "defsrc", 1)].rows

\* the entries of a row-group that are labels, in order
LabelEntries(keys) ==
    SelectSeq([n \in DOMAIN keys |-> [at |-> n, kind |-> keys[n].kind]],
              LAMBDA e : e.kind = "label")

\* C7: the output is one header, one row-group per row of the base layer in
\* order, one footer; a row-group has one label per token of the base row,
\* in column order, and the options fragment of a token that has one stands
\* once, right before the label of its key; other keys have none.
C7_OutputStructure ==
    pc = "done" =>
        /\ Len(layout) = Len(BaseRows) + 2
        /\ layout[1].kind = "header"
        /\ layout[Len(layout)].kind = "footer"
        /\ \A r \in DOMAIN BaseRows :
               LET keys == layout[r + 1].keys
                   labs == LabelEntries(keys)
               IN  /\ layout[r + 1].kind = "row"
                   /\ Len(labs) = Len(BaseRows[r])
                   /\ \A c \in DOMAIN labs :
                          LET at   == labs[c].at
                              prev == IF c = 1 THEN 0 ELSE labs[c - 1].at
                              k    == BaseRows[r][c]
                          IN  /\ \E i \in DOMAIN observed :
                                     /\ observed[i].row = r - 1
                                     /\ observed[i].col = c - 1
                                     /\ keys[at].lines = observed[i].result
                              /\ IF HasOption(k)
                                 THEN /\ at = prev + 2
                                      /\ keys[at - 1].kind = "options"
                                      /\ keys[at - 1].data
                                             = LastOption(text.hardware.options, k)
                                 ELSE at = prev + 1
                   /\ Len(keys) = IF Len(labs) = 0 THEN 0 ELSE labs[Len(labs)].at

\* an output with a row-group where one key has a fragment, another none
C7_Witness ==
    /\ pc = "done"
    /\ Len(layout) = 4
    /\ Len(layout[2].keys) = 4
    /\ layout[2].keys[1] = [kind |-> "options", data |-> "{h:2}"]
    /\ layout[2].keys[2].kind = "label"
    /\ layout[2].keys[3].kind = "label"
    /\ layout[3].keys[2].kind = "options"

\* the rows written in the last section of the file that declares the layer
WrittenRows(name) ==
    text.layers[CHOOSE n \in DOMAIN text.layers :
        /\ text.layers[n].layer = (IF name = "defsrc" THEN None ELSE name)
        /\ \A m \in DOMAIN text.layers :
               text.layers[m].layer = text.layers[n].layer => m <= n].decl.rows

\* C8: blanks at the ends of lines, and blanks or a line break with an
\* indentation before the closing parenthesis, change nothing: the grid
\* parsed from a declaration is the rows of tokens written in it, and a
\* keycap declaration of 4 rows of 3 tokens is accepted as a 4x3 grid.
C8_WhitespaceInsensitive ==
    /\ pc # "layers" =>
           \A n \in DOMAIN layers : layers[n].rows = WrittenRows(layers[n].name)
    /\ (KeyCapBuilt /\ text.hardware.keycap.present
            /\ Is4x3(text.hardware.keycap.rows)) =>
           /\ err # InvalidKeycap
           /\ pc # "raised" => hardware.keycap.rows = text.hardware.keycap.rows

\* the token a layer has at (row, col), 0-based; None where it has no such
\* place or has `_` there
TokenAt(rows, row, col) ==
    IF row + 1 \in DOMAIN rows /\ col + 1 \in DOMAIN rows[row + 1]
           /\ rows[row + 1][col + 1] # "_"
    THEN rows[row + 1][col + 1]
    ELSE None

\* C10: the lookup of a layer's token never raises: once the hardware
\* layout is built and the file has a base layer, build completes, and for
\* every position of the base layer the map handed to KeyCap.label holds,
\* for every layer, the layer's token there, or None where the layer has no
\* such row or column or has `_`.
C10_TokenAtNeverRaises ==
    /\ err.type # "IndexError"
    /\ (Ended /\ hardware # NoHardware /\ Find(layers, "defsrc", 1) # 0) =>
           /\ pc = "done"
           /\ \A r \in DOMAIN BaseRows : \A c \in DOMAIN BaseRows[r] :
                  \E i \in DOMAIN observed :
                      /\ observed[i].row = r - 1
                      /\ observed[i].col = c - 1
                      /\ Len(observed[i].labels) = Len(layers)
                      /\ \A n \in DOMAIN layers :
                             /\ observed[i].labels[n].layer = layers[n].name
                             /\ observed[i].labels[n].key
                                    = TokenAt(layers[n].rows, r - 1, c - 1)

\* a key of the second base row, third column, where one layer has no
\* second row and another no third column
C10_Witness ==
    /\ pc = "done"
    /\ \E i \in DOMAIN observed :
           /\ observed[i].row = 1
           /\ observed[i].col = 2
           /\ \E n, m \in DOMAIN layers :
                  /\ Len(layers[n].rows) = 1
                  /\ Len(layers[m].rows) >= 2 /\ Len(layers[m].rows[2]) = 2
                  /\ observed[i].labels[n].key = None
                  /\ observed[i].labels[m].key = None
           /\ \E n \in DOMAIN layers : observed[i].labels[n].key = "bksl"

====
